---- MODULE Spec2Model ----
(***************************************************************************)
(* Invoice generator: the Invoice model and its pricing arithmetic         *)
(* (src/main.py), the document generate_pdf builds, and the create_invoice *)
(* request handler (src/app.py) run by several requests at once.           *)
(*                                                                         *)
(* Numbers.  The program computes with Python floats.  Every number the    *)
(* model feeds in is a small dyadic rational (0, 1/2, 5/2, 10, ...), on    *)
(* which float +, -, * are exact, so a number is modelled as the exact     *)
(* rational <<n, d>> in lowest terms with d > 0.                           *)
(*                                                                         *)
(* Not modelled: the page layout (fonts, colours, widths), the currency    *)
(* glyph and the notes/terms footer text, the logo, the invoice date.      *)
(***************************************************************************)
EXTENDS Integers, Sequences, FiniteSets, TLC

VARIABLES
    inv,        \* SpecInvoice: the Invoice object a caller builds directly
    doc,        \* SpecInvoice: the document built by the generate_pdf call that
                \*   has just returned; NoDoc once the invoice is touched again
    added,      \* history: the items passed to add_item, in call order
    taxHist,    \* history: the arguments of the last two set_tax_rate calls
    discArg,    \* history: the arguments of the latest set_discount call
    req,        \* per request of create_invoice: its locals and position
    heap,       \* the addresses of the Invoice objects that are alive
    sigdir,     \* ./signatures: file name -> content ("absent" if no file)
    outdir,     \* working directory: the PDF files written, by file name
    created,    \* history: invoice_number of every Invoice constructed
    overlapped  \* history: pairs of requests that were in progress together

vars == <<inv, doc, added, taxHist, discArg,
          req, heap, sigdir, outdir, created, overlapped>>

invoiceVars == <<inv, doc, added, taxHist, discArg>>
requestVars == <<req, heap, sigdir, outdir, created, overlapped>>

---------------------------------------------------------------------------
(* Bounds of the model *)

MaxItems == 7       \* items add_item is called with on the directly built Invoice
MaxCharges == 3     \* length of a charge_types / charge_amounts list in a payload
NReq == 2           \* requests handled by the server
NAddr == 2          \* addresses the allocator hands out for Invoice objects

---------------------------------------------------------------------------
(* Python numbers *)

RECURSIVE GCD(_, _)
GCD(a, b) == IF b = 0 THEN a ELSE GCD(b, a % b)

Abs(n) == IF n < 0 THEN -n ELSE n

Norm(n, d) == LET g == GCD(Abs(n), d) IN <<n \div g, d \div g>>

R(n) == <<n, 1>>

Frac(n, d) == Norm(n, d)

RAdd(x, y) == Norm(x[1] * y[2] + y[1] * x[2], x[2] * y[2])

RSub(x, y) == Norm(x[1] * y[2] - y[1] * x[2], x[2] * y[2])

RMul(x, y) == Norm(x[1] * y[1], x[2] * y[2])

RLess(x, y) == x[1] * y[2] < y[1] * x[2]

\* builtin sum(): left to right from 0
RECURSIVE PySum(_)
PySum(s) == IF s = <<>> THEN R(0) ELSE RAdd(PySum(SubSeq(s, 1, Len(s) - 1)), s[Len(s)])

\* builtin int() of a float: truncation toward zero
PyIntOfFloat(x) == IF x[1] >= 0 THEN R(x[1] \div x[2]) ELSE R(-((-x[1]) \div x[2]))

---------------------------------------------------------------------------
(* main.py: Client, Item, Invoice *)

\* the addresses id() can return for an Invoice object
Addrs == 1..NAddr

Client(name, email, address, contact) ==
    [name |-> name, email |-> email, address |-> address, contact |-> contact]

\* charge_types / charge_amounts: None and [] behave alike wherever the
\* program reads them ("x or []", "if x"), so both are the empty sequence.
Item(name, qty, price, charge_types, charge_amounts) ==
    [name |-> name, qty |-> qty, price |-> price,
     charge_types |-> charge_types, charge_amounts |-> charge_amounts]

price_cal(item) ==
    LET base == RMul(item.qty, item.price)
        extras == PySum(item.charge_amounts)
    IN RAdd(base, extras)

\* f"INV-{id(self)}": id(self) is the address of the object
InvoiceNumber(id) == [prefix |-> "INV-", id |-> id]

Invoice(client, id) ==
    [client |-> client, items |-> <<>>, invoice_number |-> InvoiceNumber(id),
     tax_rate |-> R(0), discount |-> R(0), discount_type |-> "flat"]

add_item(invoice, item) == [invoice EXCEPT !.items = Append(@, item)]

set_tax_rate_keeps_first(invoice, rate) ==
    IF invoice.tax_rate = R(0) THEN [invoice EXCEPT !.tax_rate = rate] ELSE invoice

set_tax_rate(invoice, rate) == [invoice EXCEPT !.tax_rate = rate]

set_discount(invoice, amount, discount_type) ==
    [invoice EXCEPT !.discount = amount, !.discount_type = discount_type]

calculate_subtotal(items) == PySum([i \in DOMAIN items |-> price_cal(items[i])])

apply_discount_clamped(subtotal, discount, discount_type) ==
    IF discount_type = "percentage"
    THEN RMul(subtotal, RSub(R(1), discount))
    ELSE IF RLess(subtotal, discount) THEN R(0) ELSE RSub(subtotal, discount)

apply_discount(subtotal, discount, discount_type) ==
    IF discount_type = "percentage"
    THEN RMul(subtotal, RSub(R(1), discount))
    ELSE RSub(subtotal, discount)

apply_tax(amount, tax_rate) == RMul(amount, RAdd(R(1), tax_rate))

---------------------------------------------------------------------------
(* main.py: generate_pdf *)

MinRows == 7

NoPath == "none"
NoImage == "none"
NoDoc == [kind |-> "none"]

DefaultFilename(invoice) ==
    [prefix |-> "invoice_", number |-> invoice.invoice_number, ext |-> ".pdf"]

HeaderRow == [kind |-> "header"]

BlankRow == [kind |-> "blank"]

ItemRow(item) ==
    [kind |-> "item", name |-> item.name,
     desc |-> IF item.charge_types # <<>> THEN item.charge_types ELSE <<"-">>,
     price |-> item.price, qty |-> item.qty, total |-> price_cal(item)]

RECURSIVE PadRows_truncating(_)
PadRows_truncating(rows) ==
    IF Len(rows) < MinRows THEN PadRows_truncating(Append(rows, BlankRow))
    ELSE SubSeq(rows, 1, MinRows)

\* while len(item_data) < 7: item_data.append(blank row)
RECURSIVE PadRows(_)
PadRows(rows) ==
    IF Len(rows) < MinRows THEN PadRows(Append(rows, BlankRow)) ELSE rows

ItemTable(items) ==
    PadRows(<<HeaderRow>> \o [i \in DOMAIN items |-> ItemRow(items[i])])

\* the signature image is embedded only if a path was given and the file
\* exists when the document is built
SignatureImage(signature_img, dir) ==
    IF signature_img # NoPath /\ dir[signature_img] # "absent"
    THEN dir[signature_img] ELSE NoImage

generate_pdf(invoice, signature_img, dir) ==
    LET subtotal == calculate_subtotal(invoice.items)
        discounted == apply_discount(subtotal, invoice.discount, invoice.discount_type)
        total == apply_tax(discounted, invoice.tax_rate)
    IN [kind |-> "pdf",
        filename |-> DefaultFilename(invoice),
        invoice_number |-> invoice.invoice_number,
        client |-> invoice.client,
        item_data |-> ItemTable(invoice.items),
        subtotal |-> subtotal, discounted |-> discounted, total |-> total,
        tax_display |-> RMul(invoice.tax_rate, R(100)),
        signature |-> SignatureImage(signature_img, dir)]

---------------------------------------------------------------------------
(* app.py: the JSON payload and the builtin conversions applied to it *)

\* A JSON value: a key that is not there, null, a number, a string, a list,
\* an object.
Absent == [k |-> "absent"]
JNull == [k |-> "null"]
JNum(x) == [k |-> "num", v |-> x]
JStr(s) == [k |-> "str", s |-> s]
JList(l) == [k |-> "list", v |-> l]

Ok(v) == [ok |-> TRUE, v |-> v]
Exc(e) == [ok |-> FALSE, exc |-> e]

\* the strings of the model that float() parses, with their values; int()
\* parses only those written as an integer
FloatLiterals == [s \in {"3", "2.5", "0.5"} |->
                    CASE s = "3" -> R(3) [] s = "2.5" -> Frac(5, 2) [] s = "0.5" -> Frac(1, 2)]
IntLiterals == {"3"}

\* float(x)
PyFloat(j) ==
    CASE j.k = "num" -> Ok(j.v)
      [] j.k = "str" -> IF j.s \in DOMAIN FloatLiterals THEN Ok(FloatLiterals[j.s])
                        ELSE Exc("ValueError")
      [] OTHER -> Exc("TypeError")

\* int(x)
PyInt(j) ==
    CASE j.k = "num" -> Ok(PyIntOfFloat(j.v))
      [] j.k = "str" -> IF j.s \in IntLiterals THEN Ok(FloatLiterals[j.s])
                        ELSE Exc("ValueError")
      [] OTHER -> Exc("TypeError")

Max(a, b) == IF a >= b THEN a ELSE b

PadTo_front(list, fill, n) == [i \in 1..(n - Len(list)) |-> fill] \o list

\* list += [fill] * (n - len(list))
PadTo(list, fill, n) == list \o [i \in 1..(n - Len(list)) |-> fill]

\* werkzeug's secure_filename on the upload names of the model: directory
\* parts are removed
secure_filename(name) == IF name = "../sig.png" THEN "sig.png" ELSE name

---------------------------------------------------------------------------
(* app.py: create_invoice, step by step *)

NoData == [k |-> "none"]
NoUpload == [filename |-> "", content |-> NoImage]
NoClient == [k |-> "none"]
NoInvoice == [k |-> "none"]
NoResp == [kind |-> "none"]
NoFilename == [k |-> "none"]

IdleRequest ==
    [pc |-> "idle", data |-> NoData, upload |-> NoUpload,
     signature_path |-> NoPath, client |-> NoClient, invoice |-> NoInvoice,
     pdf_filename |-> NoFilename, doc |-> NoDoc, renderFailed |-> FALSE,
     resp |-> NoResp]

InProgress(r) == req[r].pc \notin {"idle", "done"}

\* the requests that have not arrived yet
Idle == {r \in DOMAIN req : req[r].pc = "idle"}

\* the request's Invoice object dies with the handler's frame
Release(r) ==
    IF req[r].invoice = NoInvoice THEN heap
    ELSE heap \ {req[r].invoice.invoice_number.id}

\* an exception leaves create_invoice: nothing in it catches one
Raised(r, exc) ==
    [req EXCEPT ![r].pc = "done", ![r].resp = [kind |-> "uncaught", exc |-> exc]]

\* lines 15-20: the request arrives with its payload and its upload
Receive(r, data, upload) ==
    /\ req[r].pc = "idle"
    /\ req' = [req EXCEPT ![r].pc = "signature", ![r].data = data, ![r].upload = upload]
    /\ overlapped' = overlapped \cup {{r, q} : q \in {x \in DOMAIN req : x # r /\ InProgress(x)}}
    /\ UNCHANGED <<heap, sigdir, outdir, created, invoiceVars>>

\* lines 22-29: the uploaded signature is saved under its own file name
SaveSignature(r) ==
    /\ req[r].pc = "signature"
    /\ IF req[r].upload.filename # ""
       THEN LET filename == secure_filename(req[r].upload.filename)
            IN /\ sigdir' = [sigdir EXCEPT ![filename] = req[r].upload.content]
               /\ req' = [req EXCEPT ![r].pc = "client", ![r].signature_path = filename]
       ELSE /\ req' = [req EXCEPT ![r].pc = "client"]
            /\ UNCHANGED sigdir
    /\ UNCHANGED <<heap, outdir, created, overlapped, invoiceVars>>

\* lines 31-36
MakeClient(r) ==
    /\ req[r].pc = "client"
    /\ LET c == req[r].data.client
       IN IF c = Absent \/ c.name = Absent \/ c.email = Absent \/ c.address = Absent
          THEN req' = Raised(r, "KeyError")
          ELSE req' = [req EXCEPT ![r].pc = "invoice",
                                  ![r].client = Client(c.name, c.email, c.address, c.phone)]
    /\ UNCHANGED <<heap, sigdir, outdir, created, overlapped, invoiceVars>>

\* line 38: the new object gets an address no live object has
NewInvoice(r) ==
    /\ req[r].pc = "invoice"
    /\ \E a \in Addrs \ heap :
          /\ req' = [req EXCEPT ![r].pc = "items", ![r].invoice = Invoice(req[r].client, a)]
          /\ heap' = heap \cup {a}
          /\ created' = Append(created, InvoiceNumber(a))
    /\ UNCHANGED <<sigdir, outdir, overlapped, invoiceVars>>

\* lines 40-51: one entry of data['items']
BuildItem(item_data) ==
    LET charge_types == IF item_data.charge_types = Absent THEN <<>>
                        ELSE item_data.charge_types.v
        charge_amounts == IF item_data.charge_amounts = Absent THEN <<>>
                          ELSE item_data.charge_amounts.v
        max_len == Max(Len(charge_types), Len(charge_amounts))
        qty == PyInt(item_data.quantity)
        price == PyFloat(item_data.price)
    IN IF item_data.name = Absent \/ item_data.quantity = Absent THEN Exc("KeyError")
       ELSE IF ~qty.ok THEN qty
       ELSE IF item_data.price = Absent THEN Exc("KeyError")
       ELSE IF ~price.ok THEN price
       ELSE Ok(Item(item_data.name, qty.v, price.v,
                    PadTo(charge_types, "", max_len),
                    PadTo(charge_amounts, R(0), max_len)))

\* lines 39-52: the loop over data['items']
RECURSIVE AddItemsLoop(_, _)
AddItemsLoop(invoice, items) ==
    IF items = <<>> THEN Ok(invoice)
    ELSE LET b == BuildItem(Head(items))
         IN IF b.ok THEN AddItemsLoop(add_item(invoice, b.v), Tail(items)) ELSE b

AddItems(r) ==
    /\ req[r].pc = "items"
    /\ LET res == IF req[r].data.items = Absent THEN Exc("KeyError")
                  ELSE AddItemsLoop(req[r].invoice, req[r].data.items.v)
       IN IF res.ok
          THEN /\ req' = [req EXCEPT ![r].pc = "terms", ![r].invoice = res.v]
               /\ UNCHANGED heap
          ELSE /\ req' = Raised(r, res.exc)
               /\ heap' = Release(r)
    /\ UNCHANGED <<sigdir, outdir, created, overlapped, invoiceVars>>

\* lines 54-55
TaxRateSet(invoice, data) ==
    IF data.tax_rate = Absent THEN Ok(invoice)
    ELSE LET rate == PyFloat(data.tax_rate)
         IN IF rate.ok THEN Ok(set_tax_rate(invoice, rate.v)) ELSE rate

\* lines 56-57
DiscountSet(invoice, data) ==
    IF data.discount = Absent THEN Ok(invoice)
    ELSE LET amount == PyFloat(data.discount)
             discount_type == IF data.discount_type = Absent THEN "flat"
                              ELSE data.discount_type.s
         IN IF amount.ok THEN Ok(set_discount(invoice, amount.v, discount_type))
            ELSE amount

SetTerms(r) ==
    /\ req[r].pc = "terms"
    /\ LET t == TaxRateSet(req[r].invoice, req[r].data)
           res == IF t.ok THEN DiscountSet(t.v, req[r].data) ELSE t
       IN IF res.ok
          THEN /\ req' = [req EXCEPT ![r].pc = "render", ![r].invoice = res.v]
               /\ UNCHANGED heap
          ELSE /\ req' = Raised(r, res.exc)
               /\ heap' = Release(r)
    /\ UNCHANGED <<sigdir, outdir, created, overlapped, invoiceVars>>

FileExists(name) == \E f \in outdir : f.name = name

WriteFile(name, content) ==
    {f \in outdir : f.name # name} \cup {[name |-> name, content |-> content]}

\* lines 62-68: generate_pdf builds the document and writes the file, or the
\* build fails (a document construction error, a file error) and raises
Render(r) ==
    /\ req[r].pc = "render"
    /\ \E built \in BOOLEAN :
          IF built
          THEN LET d == generate_pdf(req[r].invoice, req[r].signature_path, sigdir)
               IN /\ outdir' = WriteFile(d.filename, d)
                  /\ req' = [req EXCEPT ![r].pc = "respond", ![r].doc = d,
                                        ![r].pdf_filename = d.filename]
                  /\ UNCHANGED heap
          ELSE /\ req' = [Raised(r, "RenderError") EXCEPT ![r].renderFailed = TRUE]
               /\ heap' = Release(r)
               /\ UNCHANGED outdir
    /\ UNCHANGED <<sigdir, created, overlapped, invoiceVars>>

\* lines 70-77
Respond(r) ==
    /\ req[r].pc = "respond"
    /\ req' = [req EXCEPT ![r].pc = "done",
                          ![r].resp =
                              IF req[r].pdf_filename = NoFilename \/ ~FileExists(req[r].pdf_filename)
                              THEN [kind |-> "json", success |-> FALSE, status |-> 500,
                                    message |-> "Failed to generate PDF"]
                              ELSE [kind |-> "json", success |-> TRUE, status |-> 200,
                                    invoice_number |-> req[r].invoice.invoice_number,
                                    pdf_url |-> req[r].pdf_filename]]
    /\ heap' = Release(r)
    /\ UNCHANGED <<sigdir, outdir, created, overlapped, invoiceVars>>

---------------------------------------------------------------------------
(* The requests the model sends *)

GoodClient ==
    [k |-> "obj", name |-> JStr("Acme"), email |-> JStr("billing@acme.test"),
     address |-> JStr("1 Main Road"), phone |-> Absent]

ItemEntry(name, quantity, price, charge_types, charge_amounts) ==
    [name |-> name, quantity |-> quantity, price |-> price,
     charge_types |-> charge_types, charge_amounts |-> charge_amounts]

BaseItem == ItemEntry(JStr("widget"), JNum(R(2)), JNum(R(10)), Absent, Absent)

ChargedItem == ItemEntry(JStr("cable"), JNum(R(1)), JNum(Frac(3, 2)),
                         JList(<<"shipping">>), JList(<<R(5)>>))

BasePayload ==
    [client |-> GoodClient, items |-> JList(<<BaseItem>>),
     tax_rate |-> Absent, discount |-> Absent, discount_type |-> Absent]

WithItem(entry) == [BasePayload EXCEPT !.items = JList(<<entry>>)]

SeqsUpTo(S, n) == UNION {[1..k -> S] : k \in 0..n}

ChargeLists(S) == {Absent} \cup {JList(l) : l \in SeqsUpTo(S, MaxCharges)}

\* every pair of charge lists, with a whole and a fractional quantity
ChargePayloads ==
    { WithItem(ItemEntry(JStr("widget"), q, JNum(R(10)), ct, ca)) :
        q \in {JNum(R(2)), JNum(Frac(5, 2))},
        ct \in ChargeLists({"shipping", "handling"}),
        ca \in ChargeLists({R(5), Frac(1, 2)}) }

\* one required field missing
MissingFieldPayloads ==
    { [BasePayload EXCEPT !.client = Absent],
      [BasePayload EXCEPT !.client.name = Absent],
      [BasePayload EXCEPT !.client.email = Absent],
      [BasePayload EXCEPT !.client.address = Absent],
      [BasePayload EXCEPT !.items = Absent],
      WithItem([BaseItem EXCEPT !.name = Absent]),
      WithItem([BaseItem EXCEPT !.quantity = Absent]),
      WithItem([BaseItem EXCEPT !.price = Absent]) }

\* quantities and prices sent as strings or null
ConversionPayloads ==
    { WithItem([BaseItem EXCEPT !.quantity = q, !.price = p]) :
        q \in {JNum(R(2)), JStr("3"), JStr("2.5"), JStr("abc"), JNull},
        p \in {JNum(Frac(3, 2)), JStr("2.5"), JStr("abc")} }

TermsPayloads ==
    { [BasePayload EXCEPT !.tax_rate = t, !.discount = d, !.discount_type = dt] :
        t \in {Absent, JNum(Frac(1, 4)), JStr("0.5"), JStr("abc"), JNull},
        d \in {Absent, JNum(Frac(1, 2)), JNum(R(30))},
        dt \in {Absent, JStr("percentage"), JStr("bogus")} }

ListPayloads ==
    { [BasePayload EXCEPT !.items = JList(<<>>)],
      [BasePayload EXCEPT !.items = JList(<<BaseItem, ChargedItem>>)],
      [BasePayload EXCEPT !.items = JList(<<ChargedItem, [BaseItem EXCEPT !.price = Absent]>>)] }

HandlerPayloads ==
    ChargePayloads \cup MissingFieldPayloads \cup ConversionPayloads
        \cup TermsPayloads \cup ListPayloads

ConcurrentPayloads ==
    { BasePayload,
      WithItem(ChargedItem),
      [BasePayload EXCEPT !.client.name = Absent],
      WithItem([BaseItem EXCEPT !.price = Absent]),
      [BasePayload EXCEPT !.tax_rate = JStr("abc")] }

Uploads ==
    { NoUpload,
      [filename |-> "sig.png", content |-> "imgA"],
      [filename |-> "../sig.png", content |-> "imgB"],
      [filename |-> "stamp.png", content |-> "imgC"] }

InitRequestVars(n) ==
    /\ req = [r \in 1..n |-> IdleRequest]
    /\ heap = {}
    /\ sigdir = [f \in {"sig.png", "stamp.png"} |-> "absent"]
    /\ outdir = {}
    /\ created = <<>>
    /\ overlapped = {}

InitInvoiceVarsUnused ==
    /\ inv = NoInvoice
    /\ doc = NoDoc
    /\ added = <<>>
    /\ taxHist = <<>>
    /\ discArg = [amount |-> R(0), type |-> "flat"]

(* SpecHandler: one request, any payload of HandlerPayloads *)

InitHandler == InitRequestVars(1) /\ InitInvoiceVarsUnused

NextHandler ==
    \/ \E r \in Idle : \E data \in HandlerPayloads, upload \in Uploads :
          Receive(r, data, upload)
    \/ \E r \in DOMAIN req : SaveSignature(r)
    \/ \E r \in DOMAIN req : MakeClient(r)
    \/ \E r \in DOMAIN req : NewInvoice(r)
    \/ \E r \in DOMAIN req : AddItems(r)
    \/ \E r \in DOMAIN req : SetTerms(r)
    \/ \E r \in DOMAIN req : Render(r)
    \/ \E r \in DOMAIN req : Respond(r)

SpecHandler == InitHandler /\ [][NextHandler]_vars

(* SpecServer: NReq requests handled by threads that interleave at every    *)
(* step                                                                    *)

InitServer == InitRequestVars(NReq) /\ InitInvoiceVarsUnused

NextServer ==
    \/ \E r \in Idle : \E data \in ConcurrentPayloads, upload \in Uploads :
          Receive(r, data, upload)
    \/ \E r \in DOMAIN req : SaveSignature(r)
    \/ \E r \in DOMAIN req : MakeClient(r)
    \/ \E r \in DOMAIN req : NewInvoice(r)
    \/ \E r \in DOMAIN req : AddItems(r)
    \/ \E r \in DOMAIN req : SetTerms(r)
    \/ \E r \in DOMAIN req : Render(r)
    \/ \E r \in DOMAIN req : Respond(r)

SpecServer == InitServer /\ [][NextServer]_vars

---------------------------------------------------------------------------
(* SpecInvoice: a caller builds one Invoice with add_item, set_tax_rate and *)
(* set_discount in any order and renders it with generate_pdf, any number  *)
(* of times.                                                               *)

SampleClient == Client("Acme", "billing@acme.test", "1 Main Road", "none")

SampleItems ==
    { Item("widget", R(2), R(10), <<>>, <<>>),
      Item("cable", Frac(5, 2), Frac(3, 2), <<"shipping">>, <<R(5)>>) }

SampleTaxRates == { Frac(1, 4), Frac(1, 2) }

SampleDiscounts == { Frac(1, 2), R(30) }

SampleDiscountTypes == { "flat", "percentage", "bogus" }

InitInvoice ==
    /\ \E a \in Addrs : inv = Invoice(SampleClient, a)
    /\ doc = NoDoc
    /\ added = <<>>
    /\ taxHist = <<>>
    /\ discArg = [amount |-> R(0), type |-> "flat"]
    /\ InitRequestVars(0)

LastTwo(s) == IF Len(s) > 2 THEN SubSeq(s, Len(s) - 1, Len(s)) ELSE s

AddItemCall(item) ==
    /\ Len(inv.items) < MaxItems
    /\ inv' = add_item(inv, item)
    /\ added' = Append(added, item)
    /\ doc' = NoDoc
    /\ UNCHANGED <<taxHist, discArg, requestVars>>

SetTaxRateCall(rate) ==
    /\ inv' = set_tax_rate(inv, rate)
    /\ taxHist' = LastTwo(Append(taxHist, rate))
    /\ doc' = NoDoc
    /\ UNCHANGED <<added, discArg, requestVars>>

SetDiscountCall(amount, discount_type) ==
    /\ inv' = set_discount(inv, amount, discount_type)
    /\ discArg' = [amount |-> amount, type |-> discount_type]
    /\ doc' = NoDoc
    /\ UNCHANGED <<added, taxHist, requestVars>>

GeneratePdfCall ==
    /\ doc' = generate_pdf(inv, NoPath, sigdir)
    /\ UNCHANGED <<inv, added, taxHist, discArg, requestVars>>

NextInvoice ==
    \/ \E item \in SampleItems : AddItemCall(item)
    \/ \E rate \in SampleTaxRates : SetTaxRateCall(rate)
    \/ \E amount \in SampleDiscounts, t \in SampleDiscountTypes : SetDiscountCall(amount, t)
    \/ GeneratePdfCall

SpecInvoice == InitInvoice /\ [][NextInvoice]_vars

---------------------------------------------------------------------------
(* Claims checked under SpecInvoice *)

LatestTaxRate == IF taxHist = <<>> THEN R(0) ELSE taxHist[Len(taxHist)]

\* sum over the items handed to add_item of quantity * price + extra charges
RECURSIVE LineTotalsOf(_)
LineTotalsOf(items) ==
    IF items = <<>> THEN R(0)
    ELSE RAdd(RAdd(RMul(Head(items).qty, Head(items).price),
                   PySum(Head(items).charge_amounts)),
              LineTotalsOf(Tail(items)))

\* C6: the subtotal, discounted amount and total generate_pdf computes are
\* those of the items added so far, of the latest set_discount and of the
\* latest set_tax_rate: subtotal = sum of line totals, the discount is
\* applied to the subtotal, and the tax to the discounted amount.
C6_TotalsFromCurrentState ==
    doc # NoDoc =>
        LET s == LineTotalsOf(added)
            d == IF discArg.type = "percentage"
                 THEN RMul(s, RSub(R(1), discArg.amount))
                 ELSE RSub(s, discArg.amount)
            t == RMul(d, RAdd(R(1), LatestTaxRate))
        IN /\ doc.subtotal = s
           /\ doc.discounted = d
           /\ doc.total = t

\* a render after two different set_tax_rate calls, a set_discount and two
\* add_item calls, where discount-then-tax differs from tax-then-discount
C6_Witness ==
    /\ doc # NoDoc
    /\ Len(added) >= 2
    /\ Len(taxHist) = 2 /\ taxHist[1] # taxHist[2]
    /\ discArg.type = "flat" /\ discArg.amount # R(0)
    /\ doc.total # RSub(RMul(doc.subtotal, RAdd(R(1), LatestTaxRate)), discArg.amount)

\* C8: set_discount stores any discount_type it is given, and the discounted
\* amount is subtotal * (1 - discount) for 'percentage' only; for every other
\* type it is subtotal - discount, unclamped.
C8_UnknownDiscountTypeIsFlat ==
    /\ inv.discount_type = discArg.type
    /\ inv.discount = discArg.amount
    /\ doc # NoDoc =>
          doc.discounted = IF discArg.type = "percentage"
                           THEN RMul(doc.subtotal, RSub(R(1), discArg.amount))
                           ELSE RSub(doc.subtotal, discArg.amount)

\* a render with an unrecognised discount_type whose flat discount exceeds the
\* subtotal: the discounted amount is negative
C8_Witness ==
    /\ doc # NoDoc
    /\ discArg.type \notin {"flat", "percentage"}
    /\ added # <<>>
    /\ RLess(doc.discounted, R(0))

\* C10: the item table has max(7, n + 1) rows: the header, one row per item
\* in insertion order, then blank rows only (none when n >= 6).
C10_ItemTableRows ==
    doc # NoDoc =>
        LET n == Len(added)
            rows == doc.item_data
        IN /\ Len(rows) = IF n + 1 > 7 THEN n + 1 ELSE 7
           /\ rows[1].kind = "header"
           /\ \A i \in 1..n :
                 /\ rows[i + 1].kind = "item"
                 /\ rows[i + 1].name = added[i].name
                 /\ rows[i + 1].qty = added[i].qty
                 /\ rows[i + 1].price = added[i].price
           /\ \A i \in (n + 2)..Len(rows) : rows[i].kind = "blank"
           /\ n >= 6 => \A i \in 1..Len(rows) : rows[i].kind # "blank"

\* a render of an invoice with seven items, two of them different
C10_Witness ==
    /\ doc # NoDoc
    /\ Len(added) = 7
    /\ added[1] # added[7]
    /\ Len(doc.item_data) = 8

---------------------------------------------------------------------------
(* Claims checked under SpecHandler and SpecServer *)

Requests == DOMAIN req

\* the entry of data['items'] the i-th item of the request's invoice was built from
EntryOf(r, i) == req[r].data.items.v[i]

SuppliedList(l) == IF l = Absent THEN <<>> ELSE l.v

\* the number a payload value denotes
NumberOf(j) == IF j.k = "num" THEN j.v ELSE FloatLiterals[j.s]

ItemsOf(r) == IF req[r].invoice = NoInvoice THEN <<>> ELSE req[r].invoice.items

\* C1: no two Invoice objects ever constructed, alive or already discarded,
\* have the same invoice_number (so none share a default file name).
C1_InvoiceNumbersUnique ==
    \A i, j \in DOMAIN created : i # j => created[i] # created[j]

\* C2: two requests whose handling overlapped in time wrote their PDFs to
\* different files.
C2_OverlappingRequestsWriteDistinctFiles ==
    \A r1, r2 \in Requests :
        (/\ r1 # r2
         /\ {r1, r2} \in overlapped
         /\ req[r1].pdf_filename # NoFilename
         /\ req[r2].pdf_filename # NoFilename)
        => req[r1].pdf_filename # req[r2].pdf_filename

\* what generate_pdf builds for this payload and upload when no other
\* request runs: the upload folder holds at most the request's own file
SoloSigdir(upload) ==
    IF upload.filename # ""
    THEN [f \in {"sig.png", "stamp.png"} |->
             IF f = secure_filename(upload.filename) THEN upload.content ELSE "absent"]
    ELSE [f \in {"sig.png", "stamp.png"} |-> "absent"]

SoloDoc(data, upload) ==
    LET c == data.client
        i0 == Invoice(Client(c.name, c.email, c.address, c.phone), 1)
        i1 == AddItemsLoop(i0, data.items.v).v
        i2 == TaxRateSet(i1, data).v
        i3 == DiscountSet(i2, data).v
        path == IF upload.filename # "" THEN secure_filename(upload.filename) ELSE NoPath
    IN generate_pdf(i3, path, SoloSigdir(upload))

\* the rendered content: everything but the identifier-derived fields
Content(d) == [client |-> d.client, item_data |-> d.item_data, subtotal |-> d.subtotal,
               discounted |-> d.discounted, total |-> d.total,
               tax_display |-> d.tax_display, signature |-> d.signature]

\* C3: what a request renders (client, items, totals, signature image) is
\* what it would render had no other request run.
C3_RenderDependsOnOwnRequestOnly ==
    \A r \in Requests :
        req[r].doc # NoDoc =>
            Content(req[r].doc) = Content(SoloDoc(req[r].data, req[r].upload))

\* C4: a request whose generate_pdf failed ends with the JSON failure
\* response (success false, status 500), not with an escaped exception.
C4_RenderFailureAnsweredWithJson500 ==
    \A r \in Requests :
        (req[r].pc = "done" /\ req[r].renderFailed) =>
            /\ req[r].resp.kind = "json"
            /\ req[r].resp.success = FALSE
            /\ req[r].resp.status = 500

\* a required field is missing, or tax_rate is there and is not a number
LacksRequiredField(data) ==
    \/ data.client = Absent
    \/ data.client.name = Absent \/ data.client.email = Absent \/ data.client.address = Absent
    \/ data.items = Absent
    \/ \E i \in DOMAIN data.items.v :
          LET e == data.items.v[i]
          IN e.name = Absent \/ e.quantity = Absent \/ e.price = Absent

NonNumericTaxRate(data) ==
    /\ data.tax_rate # Absent
    /\ data.tax_rate.k # "num"
    /\ ~(data.tax_rate.k = "str" /\ data.tax_rate.s \in DOMAIN FloatLiterals)

\* C5: a request whose payload lacks a required field or has a non-numeric
\* tax_rate is answered by the handler with a failure of its own that is not
\* the render failure, and nothing is rendered or written for it.
C5_InvalidPayloadAnsweredAsValidationFailure ==
    \A r \in Requests :
        (req[r].pc = "done" /\ (LacksRequiredField(req[r].data) \/ NonNumericTaxRate(req[r].data))) =>
            /\ req[r].doc = NoDoc
            /\ req[r].pdf_filename = NoFilename
            /\ req[r].resp.kind = "json"
            /\ req[r].resp.success = FALSE
            /\ req[r].resp.message # "Failed to generate PDF"

\* C7: the line total of every item built from a payload entry is
\* quantity * price + sum(charge_amounts) of the values in that entry.
C7_LineTotalFromSuppliedValues ==
    \A r \in Requests : \A i \in DOMAIN ItemsOf(r) :
        LET e == EntryOf(r, i)
            q == NumberOf(e.quantity)
            p == NumberOf(e.price)
        IN (~RLess(q, R(0)) /\ ~RLess(p, R(0))) =>
              price_cal(ItemsOf(r)[i])
                  = RAdd(RMul(q, p), PySum(SuppliedList(e.charge_amounts)))

\* C9: every item create_invoice adds has charge_types and charge_amounts of
\* the same length, the larger of the two supplied lengths; the supplied
\* entries keep their positions, the rest is '' and 0, and the sum of the
\* amounts is that of the supplied ones.
C9_ChargeListsPadded ==
    \A r \in Requests : \A i \in DOMAIN ItemsOf(r) :
        LET it == ItemsOf(r)[i]
            ct == SuppliedList(EntryOf(r, i).charge_types)
            ca == SuppliedList(EntryOf(r, i).charge_amounts)
            n == IF Len(ct) >= Len(ca) THEN Len(ct) ELSE Len(ca)
        IN /\ Len(it.charge_types) = n
           /\ Len(it.charge_amounts) = n
           /\ \A k \in 1..n :
                 /\ it.charge_types[k] = IF k <= Len(ct) THEN ct[k] ELSE ""
                 /\ it.charge_amounts[k] = IF k <= Len(ca) THEN ca[k] ELSE R(0)
           /\ PySum(it.charge_amounts) = PySum(ca)

\* an item built from three charge types and one amount has been rendered
C9_Witness ==
    \E r \in Requests :
        /\ req[r].doc # NoDoc
        /\ ItemsOf(r) # <<>>
        /\ Len(SuppliedList(EntryOf(r, 1).charge_types)) = 3
        /\ Len(SuppliedList(EntryOf(r, 1).charge_amounts)) = 1
        /\ Len(ItemsOf(r)[1].charge_amounts) = 3

====
